---- MODULE Spec2Model ----
(***************************************************************************)
(* A model of @aegisjsproject/disposable: the two scope helpers of         *)
(* stacks.js (useDisposableStack, useAsyncDisposableStack) and the         *)
(* DisposableTask of utils.js, over the platform's DisposableStack,        *)
(* AsyncDisposableStack, AbortController/AbortSignal and scheduler.        *)
(*                                                                         *)
(* One behaviour exercises one of the exports (variable scenario): the     *)
(* exports share no state, so their product adds no behaviour.             *)
(***************************************************************************)
EXTENDS Integers, Sequences, FiniteSets, TLC

(* ---------------------------------------------------------------- bounds *)

\* Teardown actions one callback registers on the stack of its scope.
MaxActions == 2

\* Times one callback disposes the stack of its scope itself.
MaxCallbackDisposals == 2

\* Calls made on one disposable object (dispose, abort, revoke, access).
MaxCalls == 3

(* ---------------------------------------------------------------- values *)

\* Every JavaScript value the model passes around is a record [tag, ids]:
\* tag names the value, ids lists the teardown actions an error stems from.
Val(tag) == [tag |-> tag, ids |-> <<>>]

NoVal == Val("none")

\* What a callback may return or fulfil with.
Values == {Val("V1"), Val("V2")}

\* What a callback may throw or reject with, of its own.
Errors == {Val("E1")}

\* Reasons the owner of the external signal may abort it with.
Reasons == {Val("R1"), Val("R2")}

\* The error teardown action id throws (or its promise rejects with).
TeardownError(id) == [tag |-> "TeardownError", ids |-> <<id>>]

\* DisposeResources: an error thrown while another is pending wraps it.
SuppressedError(id, err) == [tag |-> "SuppressedError", ids |-> <<id>> \o err.ids]

\* new DOMException('Controller was disposed.', 'AbortError')
ControllerDisposed == Val("AbortError: Controller was disposed.")

\* A completion of a function call or the state of a promise.
Pending == [kind |-> "pending", val |-> NoVal]
Return(v) == [kind |-> "return", val |-> v]
Throw(e) == [kind |-> "throw", val |-> e]

\* An AbortSignal that is not aborted.
FreshSignal == [aborted |-> FALSE, reason |-> NoVal]

\* new DisposableStack() / new AsyncDisposableStack()
NewStack == [disposed |-> FALSE, resources |-> <<>>]

\* The entry stack.defer(fn) / stack.use(obj) pushes.
Resource(id, kind, throws) == [id |-> id, kind |-> kind, throws |-> throws]

VARIABLES
    scenario,   \* which export this behaviour exercises
    pc,         \* where the scope helper is
    stack,      \* the scope's DisposableStack / AsyncDisposableStack
    runLog,     \* ids of the teardown actions called, in call order
    cbOutcome,  \* how the callback ended
    result,     \* what the helper returned / threw, or its promise's state
    disposeCalls, \* calls of stack.dispose() / stack.disposeAsync() so far
    cbMode,     \* "sync": the callback runs to its end inside Promise.try;
                \* "async": it returns a promise that settles later
    hasSig,     \* whether options.signal was given
    sig,        \* options.signal, the external signal
    ctrl,       \* controller.signal, the scope's own DisposableAbortController
    anySig,     \* AbortSignal.any([sig, controller.signal])
    disp,       \* the asynchronous DisposeResources in progress
    fin,        \* the promise of the disposeAsync() the finally reaction called
    tcb,        \* DisposableTask: where the scheduled callback is
    posted,     \* the promise scheduler.postTask returned
    delivered,  \* whether the reaction .then(resolve, reject) of it has run
    awaitable,  \* #resolvers.promise, what the task's then/catch/finally see
    tctrl,      \* #controller.signal
    usig,       \* the signal option: [has, aborted, reason]
    tany,       \* TaskSignal.any([signal, #controller.signal])
    events,     \* the task's events so far, each with the outcome it stands for
    tret,       \* what the last call of task.abort() / dispose returned
    dac,        \* a DisposableAbortController of its own
    ourl,       \* a DisposableObjectURL
    proxy,      \* what guard() returned
    wd,         \* what whenDisposed() returned
    el,         \* what createDisposableElement() returned
    timer,      \* what a helper of scheduling.js scheduled
    wrapper     \* an instance of a class of network.js, observers.js, media.js

asyncVars == <<cbMode, hasSig, sig, ctrl, anySig, disp, fin>>

taskVars == <<tcb, posted, delivered, awaitable, tctrl, usig, tany, events, tret>>

scopeVars == <<pc, stack, runLog, cbOutcome, result, disposeCalls, asyncVars>>

helperVars == <<dac, ourl, proxy, wd, el, timer, wrapper>>

(* ------------------------------------------------ useDisposableStack ---- *)

\* DisposeResources of a synchronous stack: calls resources[i], .., resources[1]
\* in that order, each once, collecting what they throw.
RECURSIVE DisposeResources(_, _, _, _)
DisposeResources(resources, i, log, err) ==
    IF i = 0
    THEN [log |-> log, err |-> err]
    ELSE LET r == resources[i]
             e == IF ~r.throws THEN err
                  ELSE IF err = NoVal THEN TeardownError(r.id)
                  ELSE SuppressedError(r.id, err)
         IN  DisposeResources(resources, i - 1, Append(log, r.id), e)

\* A dispose that calls the teardown list again on a stack already disposed.
StackDisposeAgain(st, log) ==
    LET d == DisposeResources(st.resources, Len(st.resources), log, NoVal)
    IN  [stack |-> [st EXCEPT !.disposed = TRUE], log |-> d.log, err |-> d.err]

\* stack.dispose(): nothing on a disposed stack; else the stack is marked
\* disposed and its resources are disposed in reverse order.
StackDispose(st, log) ==
    IF st.disposed
    THEN [stack |-> st, log |-> log, err |-> NoVal]
    ELSE LET d == DisposeResources(st.resources, Len(st.resources), log, NoVal)
         IN  [stack |-> [st EXCEPT !.disposed = TRUE], log |-> d.log, err |-> d.err]

\* try { return callback() } catch { } : a throwing callback skips the disposal.
ScopeExitNoFinally(st, log, cb) ==
    IF cb.kind = "throw"
    THEN [stack |-> st, log |-> log, result |-> cb]
    ELSE LET d == StackDispose(st, log)
         IN  [stack |-> d.stack, log |-> d.log,
              result |-> IF d.err = NoVal THEN cb ELSE Throw(d.err)]

\* A finally block that drops the callback's completion.
ScopeExitNoValue(st, log, cb) ==
    LET d == StackDispose(st, log)
    IN  [stack |-> d.stack, log |-> d.log,
         result |-> IF d.err = NoVal THEN Return(Val("undefined")) ELSE Throw(d.err)]

\* try { return callback(..) } finally { stack.dispose() }: the callback's
\* completion stands unless dispose() throws, whose error then replaces it.
ScopeExit(st, log, cb) ==
    LET d == StackDispose(st, log)
    IN  [stack |-> d.stack, log |-> d.log,
         result |-> IF d.err = NoVal THEN cb ELSE Throw(d.err)]

\* useDisposableStack(callback): the stack is made and the callback entered.
UseDisposableStack ==
    /\ scenario = "none"
    /\ scenario' = "sync"
    /\ pc' = "callback"
    /\ stack' = NewStack
    /\ UNCHANGED <<runLog, cbOutcome, result, disposeCalls, asyncVars, taskVars, helperVars>>

\* The callback calls stack.defer(fn). (On a disposed stack defer throws a
\* ReferenceError and registers nothing: no state changes.)
SyncDefer(throws) ==
    /\ scenario = "sync" /\ pc = "callback"
    /\ Len(stack.resources) < MaxActions
    /\ ~stack.disposed
    /\ stack' = [stack EXCEPT !.resources =
                    Append(@, Resource(Len(@) + 1, "defer", throws))]
    /\ UNCHANGED <<scenario, pc, runLog, cbOutcome, result, disposeCalls, asyncVars, taskVars, helperVars>>

\* The callback disposes the stack itself, before the helper does.
SyncCallbackDispose ==
    /\ scenario = "sync" /\ pc = "callback"
    /\ disposeCalls < MaxCallbackDisposals
    /\ LET d == StackDispose(stack, runLog)
       IN  /\ stack' = d.stack
           /\ runLog' = d.log
    /\ disposeCalls' = disposeCalls + 1
    /\ UNCHANGED <<scenario, pc, cbOutcome, result, asyncVars, taskVars, helperVars>>

\* The callback returns v: the finally block runs and the helper returns.
SyncReturn(v) ==
    /\ scenario = "sync" /\ pc = "callback"
    /\ LET x == ScopeExit(stack, runLog, Return(v))
       IN  /\ stack' = x.stack
           /\ runLog' = x.log
           /\ result' = x.result
    /\ cbOutcome' = Return(v)
    /\ pc' = "done"
    /\ disposeCalls' = disposeCalls + 1
    /\ UNCHANGED <<scenario, asyncVars, taskVars, helperVars>>

\* The callback throws e: the finally block runs and the helper throws.
SyncThrow(e) ==
    /\ scenario = "sync" /\ pc = "callback"
    /\ LET x == ScopeExit(stack, runLog, Throw(e))
       IN  /\ stack' = x.stack
           /\ runLog' = x.log
           /\ result' = x.result
    /\ cbOutcome' = Throw(e)
    /\ pc' = "done"
    /\ disposeCalls' = disposeCalls + 1
    /\ UNCHANGED <<scenario, asyncVars, taskVars, helperVars>>

(* ------------------------------------------- useAsyncDisposableStack ---- *)

\* No disposal has been started.
NoDisposal == [state |-> "idle", idx |-> 0, err |-> NoVal, by |-> "none"]

\* The id of the scope's own controller among the resources of its stack.
ControllerId == 0

\* A Symbol.dispose that leaves the controller as it is.
DisposeControllerNothing(c) == c

\* DisposableAbortController[Symbol.dispose](): aborts with an AbortError
\* unless the signal is aborted already.
DisposeController(c) ==
    IF ~c.aborted
    THEN [aborted |-> TRUE, reason |-> ControllerDisposed]
    ELSE c

\* controller.abort(reason) / the abort of a signal: the first reason stays.
Abort(s, reason) ==
    IF s.aborted THEN s ELSE [aborted |-> TRUE, reason |-> reason]

\* A dependent signal of AbortSignal.any: aborted with the reason of the
\* source that aborts, unless it is aborted already.
Follow(dep, src) ==
    IF dep.aborted \/ ~src.aborted THEN dep ELSE Abort(dep, src.reason)

\* A scope that hands the callback the controller's signal alone.
ScopeSignalOwnOnly(has, a, c) == c

\* The signal handed to the callback: AbortSignal.any([sig, controller.signal])
\* when options.signal is an AbortSignal, else controller.signal.
ScopeSignal(has, a, c) == IF has THEN a ELSE c

\* The stack calls the dispose method of resource r; the controller's aborts
\* its signal, and with it the dependent signal.
CallTeardown(r, log, c, a, has) ==
    LET c2 == IF r.kind = "controller" THEN DisposeController(c) ELSE c
    IN  [log |-> Append(log, r.id),
         ctrl |-> c2,
         anySig |-> IF has THEN Follow(a, c2) ELSE a]

\* stack.disposeAsync(), called by who: on a disposed stack a promise already
\* resolved; else the stack is marked disposed, the dispose method of the
\* resource registered last is called and its result awaited.
DisposeAsync(st, log, c, a, has, d, who) ==
    IF st.disposed
    THEN [stack |-> st, log |-> log, ctrl |-> c, anySig |-> a, disp |-> d,
          started |-> FALSE]
    ELSE LET n == Len(st.resources)
             t == CallTeardown(st.resources[n], log, c, a, has)
         IN  [stack |-> [st EXCEPT !.disposed = TRUE], log |-> t.log,
              ctrl |-> t.ctrl, anySig |-> t.anySig,
              disp |-> [state |-> "awaiting", idx |-> n, err |-> NoVal, by |-> who],
              started |-> TRUE]

\* A scope with no abort listener on its signal.
OnAbortNothing(st, log, c, a, has, d) ==
    [stack |-> st, log |-> log, ctrl |-> c, anySig |-> a, disp |-> d,
     started |-> FALSE]

\* The listener of the scope's signal: stack.disposed || stack.disposeAsync()
OnAbort(st, log, c, a, has, d) ==
    IF st.disposed
    THEN [stack |-> st, log |-> log, ctrl |-> c, anySig |-> a, disp |-> d,
          started |-> FALSE]
    ELSE DisposeAsync(st, log, c, a, has, d, "listener")

\* A useAsyncDisposableStack that does not look at the signal before it makes
\* the stack and enters the callback.
UseAsyncDisposableStackUnchecked(mode, has, pre) ==
    /\ scenario = "none"
    /\ pre # NoVal => has
    /\ scenario' = "async"
    /\ hasSig' = has
    /\ sig' = IF pre # NoVal THEN Abort(FreshSignal, pre) ELSE sig
    /\ anySig' = IF pre # NoVal THEN Abort(FreshSignal, pre) ELSE anySig
    /\ stack' = [NewStack EXCEPT !.resources =
                    <<Resource(ControllerId, "controller", FALSE)>>]
    /\ cbMode' = mode
    /\ pc' = "callback"
    /\ UNCHANGED <<runLog, cbOutcome, result, disposeCalls, ctrl, disp, fin,
                   taskVars, helperVars>>

\* useAsyncDisposableStack(callback, { signal }): with a signal aborted already
\* (pre is its reason) the promise rejects with the reason; else the stack is
\* made, the controller registered on it and the callback entered.
UseAsyncDisposableStack(mode, has, pre) ==
    /\ scenario = "none"
    /\ pre # NoVal => has
    /\ scenario' = "async"
    /\ hasSig' = has
    /\ IF pre # NoVal
       THEN /\ sig' = Abort(FreshSignal, pre)
            /\ result' = Throw(pre)
            /\ pc' = "done"
            /\ UNCHANGED <<stack, cbMode, taskVars, helperVars>>
       ELSE /\ stack' = [NewStack EXCEPT !.resources =
                            <<Resource(ControllerId, "controller", FALSE)>>]
            /\ cbMode' = mode
            /\ pc' = "callback"
            /\ UNCHANGED <<sig, result, taskVars, helperVars>>
    /\ UNCHANGED <<runLog, cbOutcome, disposeCalls, ctrl, anySig, disp, fin, taskVars, helperVars>>

\* Whether the callback's code is running now (as opposed to suspended).
CallbackPending == scenario = "async" /\ pc = "callback"

\* The callback calls stack.defer(fn). (On a disposed stack defer throws a
\* ReferenceError and registers nothing: no state changes.)
AsyncDefer(throws) ==
    /\ CallbackPending
    /\ Len(stack.resources) - 1 < MaxActions
    /\ ~stack.disposed
    /\ stack' = [stack EXCEPT !.resources =
                    Append(@, Resource(Len(@), "defer", throws))]
    /\ UNCHANGED <<scenario, pc, runLog, cbOutcome, result, disposeCalls, asyncVars, taskVars, helperVars>>

\* The callback calls stack.disposeAsync() itself.
AsyncCallbackDispose ==
    /\ CallbackPending
    /\ disposeCalls < MaxCallbackDisposals
    /\ LET x == DisposeAsync(stack, runLog, ctrl, anySig, hasSig, disp, "callback")
       IN  /\ stack' = x.stack
           /\ runLog' = x.log
           /\ ctrl' = x.ctrl
           /\ anySig' = x.anySig
           /\ disp' = x.disp
    /\ disposeCalls' = disposeCalls + 1
    /\ UNCHANGED <<scenario, pc, cbOutcome, result, cbMode, hasSig, sig, fin, taskVars, helperVars>>

\* The callback calls info.controller.abort(): the scope's signal aborts and
\* its listener runs.
CallbackAbortsController ==
    /\ CallbackPending
    /\ ~ctrl.aborted
    /\ LET c2 == Abort(ctrl, Val("AbortError: signal is aborted without reason"))
           a2 == IF hasSig THEN Follow(anySig, c2) ELSE anySig
           fires == ~ScopeSignal(hasSig, anySig, ctrl).aborted
           x == IF fires
                THEN OnAbort(stack, runLog, c2, a2, hasSig, disp)
                ELSE OnAbortNothing(stack, runLog, c2, a2, hasSig, disp)
       IN  /\ stack' = x.stack
           /\ runLog' = x.log
           /\ ctrl' = x.ctrl
           /\ anySig' = x.anySig
           /\ disp' = x.disp
           /\ disposeCalls' = IF fires /\ ~stack.disposed
                              THEN disposeCalls + 1 ELSE disposeCalls
    /\ UNCHANGED <<scenario, pc, cbOutcome, result, cbMode, hasSig, sig, fin, taskVars, helperVars>>

\* The owner of options.signal aborts it with reason r, at any time after the
\* call except while a synchronous callback is running: the dependent signal
\* aborts with r and, if that is its first abort, its listener runs.
ExternalAbort(r) ==
    /\ scenario = "async" /\ hasSig /\ ~sig.aborted
    /\ ~(pc = "callback" /\ cbMode = "sync")
    /\ sig' = Abort(sig, r)
    /\ LET a2 == Follow(anySig, sig')
           fires == ~anySig.aborted
           x == IF fires
                THEN OnAbort(stack, runLog, ctrl, a2, hasSig, disp)
                ELSE OnAbortNothing(stack, runLog, ctrl, a2, hasSig, disp)
       IN  /\ stack' = x.stack
           /\ runLog' = x.log
           /\ ctrl' = x.ctrl
           /\ anySig' = x.anySig
           /\ disp' = x.disp
           /\ disposeCalls' = IF fires /\ ~stack.disposed
                              THEN disposeCalls + 1 ELSE disposeCalls
    /\ UNCHANGED <<scenario, pc, cbOutcome, result, cbMode, hasSig, fin, taskVars, helperVars>>

\* The awaited result of the teardown action called last settles, which for an
\* action that returns a promise is whenever that promise settles: its error is
\* collected, and the next resource's dispose method is called or, with none
\* left, the disposal ends. No reaction runs while synchronous code does.
ContinueDispose ==
    /\ scenario = "async" /\ disp.state = "awaiting"
    /\ ~(pc = "callback" /\ cbMode = "sync")
    /\ LET r == stack.resources[disp.idx]
           e == IF ~r.throws THEN disp.err
                ELSE IF disp.err = NoVal THEN TeardownError(r.id)
                ELSE SuppressedError(r.id, disp.err)
       IN  IF disp.idx > 1
           THEN LET t == CallTeardown(stack.resources[disp.idx - 1], runLog,
                                      ctrl, anySig, hasSig)
                IN  /\ runLog' = t.log
                    /\ ctrl' = t.ctrl
                    /\ anySig' = t.anySig
                    /\ disp' = [disp EXCEPT !.idx = disp.idx - 1, !.err = e]
           ELSE /\ disp' = [disp EXCEPT !.state = "done", !.idx = 0, !.err = e]
                /\ UNCHANGED <<runLog, ctrl, anySig, taskVars, helperVars>>
    /\ UNCHANGED <<scenario, pc, stack, cbOutcome, result, disposeCalls,
                   cbMode, hasSig, sig, fin, taskVars, helperVars>>

\* The callback returns v (cbMode "sync") or its promise fulfils with v.
CallbackFulfils(v) ==
    /\ CallbackPending
    /\ cbOutcome' = Return(v)
    /\ pc' = "cbSettled"
    /\ UNCHANGED <<scenario, stack, runLog, result, disposeCalls, asyncVars, taskVars, helperVars>>

\* The callback throws e (cbMode "sync") or its promise rejects with e.
CallbackRejects(e) ==
    /\ CallbackPending
    /\ cbOutcome' = Throw(e)
    /\ pc' = "cbSettled"
    /\ UNCHANGED <<scenario, stack, runLog, result, disposeCalls, asyncVars, taskVars, helperVars>>

\* The callback sees its signal aborted and throws / rejects with signal.reason.
CallbackRejectsWithReason ==
    /\ CallbackPending
    /\ ScopeSignal(hasSig, anySig, ctrl).aborted
    /\ cbOutcome' = Throw(ScopeSignal(hasSig, anySig, ctrl).reason)
    /\ pc' = "cbSettled"
    /\ UNCHANGED <<scenario, stack, runLog, result, disposeCalls, asyncVars, taskVars, helperVars>>

\* .then(dispose): a reaction that only runs when the callback fulfilled.
ThenOnly(cb, st, log, c, a, has, d) ==
    IF cb.kind = "throw"
    THEN OnAbortNothing(st, log, c, a, has, d)
    ELSE DisposeAsync(st, log, c, a, has, d, "finally")

\* .finally(stack.disposeAsync.bind(stack)): runs however the callback ended.
OnFinally(cb, st, log, c, a, has, d) ==
    DisposeAsync(st, log, c, a, has, d, "finally")

\* The finally reaction of the promise of Promise.try(callback, ..) runs.
FinallyReaction ==
    /\ scenario = "async" /\ pc = "cbSettled"
    /\ LET x == OnFinally(cbOutcome, stack, runLog, ctrl, anySig, hasSig, disp)
       IN  /\ stack' = x.stack
           /\ runLog' = x.log
           /\ ctrl' = x.ctrl
           /\ anySig' = x.anySig
           /\ disp' = x.disp
           /\ fin' = IF x.started THEN "waiting" ELSE "resolved"
    /\ pc' = "finalizing"
    /\ disposeCalls' = disposeCalls + 1
    /\ UNCHANGED <<scenario, cbOutcome, result, cbMode, hasSig, sig, taskVars, helperVars>>

\* A helper whose promise rejects with the external signal's reason once that
\* signal has aborted.
SettledWithAbort(cb, f, d) ==
    IF sig.aborted THEN Throw(sig.reason)
    ELSE IF f = "waiting" /\ d.err # NoVal THEN Throw(d.err) ELSE cb

\* A promise chain that settles with what the disposal settled with.
SettledWithDisposal(cb, f, d) ==
    IF f = "waiting" /\ d.err # NoVal THEN Throw(d.err) ELSE Return(Val("undefined"))

\* promise.finally(f): once the promise f returned settles, the outcome is the
\* original one unless f's promise rejected, whose error then replaces it. The
\* promise of a disposeAsync() that found the stack disposed is fulfilled.
SettledWith(cb, f, d) ==
    IF f = "waiting" /\ d.err # NoVal THEN Throw(d.err) ELSE cb

\* The promise useAsyncDisposableStack returned settles.
Settle ==
    /\ scenario = "async" /\ pc = "finalizing"
    /\ fin = "resolved" \/ disp.state = "done"
    /\ result' = SettledWith(cbOutcome, fin, disp)
    /\ pc' = "done"
    /\ UNCHANGED <<scenario, stack, runLog, cbOutcome, disposeCalls, asyncVars, taskVars, helperVars>>

(* ---------------------------------------------------- DisposableTask ---- *)

\* new DOMException('Task was disposed.', 'AbortError')
TaskDisposed == Val("AbortError: Task was disposed.")

\* new DOMException('Task aborted.', 'AbortError'), the default of abort()
TaskAborted == Val("AbortError: Task aborted.")

\* new TypeError('Callback must be a function.')
NotAFunction == Val("TypeError: Callback must be a function.")

\* Reasons a caller may give abort(reason).
AbortReasons == {TaskAborted, Val("A1")}

\* A signal option that was not given.
NoSignal == [has |-> FALSE, aborted |-> FALSE, reason |-> NoVal]

\* resolve / reject of Promise.withResolvers(): the first settlement stands.
SettleOnce(p, c) == IF p = Pending THEN c ELSE p

\* The signal given to scheduler.postTask: TaskSignal.any([signal,
\* #controller.signal]) with a signal option, else #controller.signal.
PostedSignal(u, a, c) == IF u.has THEN a ELSE c

\* An event is logged the first time it happens.
Logged(log, name, c) ==
    IF \E k \in DOMAIN log : log[k].event = name
    THEN log
    ELSE Append(log, [event |-> name, outcome |-> c])

\* A scheduler that was given no signal: the abort leaves a queued task queued.
CancelNothing(cb, p, reason) == [tcb |-> cb, posted |-> p]

\* The scheduler on the abort of the signal a task was posted with: a task
\* still queued is dropped and its promise rejected with the reason; a task
\* that has started is left alone.
CancelQueued(cb, p, reason) ==
    IF cb = "queued"
    THEN [tcb |-> "cancelled", posted |-> Throw(reason)]
    ELSE [tcb |-> cb, posted |-> p]

\* An abort(reason) that aborts the controller and leaves the rejection of the
\* awaitable to the scheduler.
TaskAbortCallNoReject(reason, name) ==
    IF ~tctrl.aborted
    THEN LET q == IF PostedSignal(usig, tany, tctrl).aborted
                  THEN [tcb |-> tcb, posted |-> posted]
                  ELSE CancelQueued(tcb, posted, reason)
         IN  /\ tctrl' = Abort(tctrl, reason)
             /\ tany' = IF usig.has THEN Follow(tany, tctrl') ELSE tany
             /\ tcb' = q.tcb
             /\ posted' = q.posted
             /\ events' = Logged(events, name, Throw(reason))
             /\ UNCHANGED awaitable
    ELSE /\ events' = Logged(events, name, Throw(reason))
         /\ UNCHANGED <<tctrl, tany, tcb, posted, awaitable>>

\* abort(reason): with the controller not aborted yet, aborts it (which aborts
\* the posted signal and cancels a queued callback), rejects the awaitable and
\* returns true; else returns false.
TaskAbortCall(reason, name) ==
    IF ~tctrl.aborted
    THEN LET q == IF PostedSignal(usig, tany, tctrl).aborted
                  THEN [tcb |-> tcb, posted |-> posted]
                  ELSE CancelQueued(tcb, posted, reason)
         IN  /\ tctrl' = Abort(tctrl, reason)
             /\ tany' = IF usig.has THEN Follow(tany, tctrl') ELSE tany
             /\ tcb' = q.tcb
             /\ posted' = q.posted
             /\ awaitable' = SettleOnce(awaitable, Throw(reason))
             /\ events' = Logged(events, name, Throw(reason))
    ELSE /\ events' = Logged(events, name, Throw(reason))
         /\ UNCHANGED <<tctrl, tany, tcb, posted, awaitable>>

\* An abort() that returns true whatever it found.
AbortReturnsTrue(c) == Val("true")

\* What abort() returns: true if it found the controller not aborted, else
\* false.
AbortReturns(c) == IF ~c.aborted THEN Val("true") ELSE Val("false")

\* new DisposableTask(callback, { signal }): callback not a function, signal
\* aborted already (pre is its reason), or the callback is posted.
NewDisposableTask(isFunction, has, pre) ==
    /\ scenario = "none"
    /\ pre # NoVal => has
    /\ scenario' = "task"
    /\ IF ~isFunction
       THEN /\ usig' = [has |-> has, aborted |-> pre # NoVal, reason |-> pre]
            /\ TaskAbortCall(NotAFunction, "abort")
       ELSE IF pre # NoVal
       THEN /\ usig' = [has |-> TRUE, aborted |-> TRUE, reason |-> pre]
            /\ awaitable' = SettleOnce(awaitable, Throw(pre))
            /\ tctrl' = Abort(tctrl, pre)
            /\ events' = Logged(events, "signal", Throw(pre))
            /\ UNCHANGED <<tcb, posted, tany>>
       ELSE /\ usig' = [has |-> has, aborted |-> FALSE, reason |-> NoVal]
            /\ tcb' = "queued"
            /\ UNCHANGED <<posted, awaitable, tctrl, tany, events>>
    /\ UNCHANGED <<delivered, tret, scopeVars, helperVars>>

\* The scheduler starts the posted callback.
SchedulerRunsCallback ==
    /\ scenario = "task" /\ tcb = "queued"
    /\ tcb' = "running"
    /\ UNCHANGED <<scenario, posted, delivered, awaitable, tctrl, usig, tany,
                   events, tret, scopeVars, helperVars>>

\* The callback completes, with a value or an error: postTask's promise settles.
TaskCallbackCompletes(c) ==
    /\ scenario = "task" /\ tcb = "running"
    /\ tcb' = "completed"
    /\ posted' = c
    /\ events' = Logged(events, "callback", c)
    /\ UNCHANGED <<scenario, delivered, awaitable, tctrl, usig, tany, tret, scopeVars, helperVars>>

\* A reaction .then(undefined, #resolvers.reject): a value is not passed on.
PostedReactionRejectOnly ==
    /\ scenario = "task" /\ posted # Pending /\ ~delivered
    /\ delivered' = TRUE
    /\ awaitable' = IF posted.kind = "throw"
                    THEN SettleOnce(awaitable, posted) ELSE awaitable
    /\ UNCHANGED <<scenario, tcb, posted, tctrl, usig, tany, events, tret, scopeVars, helperVars>>

\* The reaction .then(#resolvers.resolve, #resolvers.reject) of postTask's
\* promise runs.
PostedReaction ==
    /\ scenario = "task" /\ posted # Pending /\ ~delivered
    /\ delivered' = TRUE
    /\ awaitable' = SettleOnce(awaitable, posted)
    /\ UNCHANGED <<scenario, tcb, posted, tctrl, usig, tany, events, tret, scopeVars, helperVars>>

\* The owner of the signal option aborts it with reason r.
UserSignalAborts(r) ==
    /\ scenario = "task" /\ usig.has /\ ~usig.aborted
    /\ usig' = [usig EXCEPT !.aborted = TRUE, !.reason = r]
    /\ tany' = Abort(tany, r)
    /\ LET q == IF tany.aborted
                THEN [tcb |-> tcb, posted |-> posted]
                ELSE CancelQueued(tcb, posted, r)
       IN  /\ tcb' = q.tcb
           /\ posted' = q.posted
    /\ events' = Logged(events, "signal", Throw(r))
    /\ UNCHANGED <<scenario, delivered, awaitable, tctrl, tret, scopeVars, helperVars>>

\* task[Symbol.dispose](): calls abort and returns nothing.
TaskDispose ==
    /\ scenario = "task"
    /\ TaskAbortCall(TaskDisposed, "abort")
    /\ tret' = Val("undefined")
    /\ UNCHANGED <<scenario, delivered, usig, scopeVars, helperVars>>

\* task.abort(reason); tret is what the call returns.
TaskAbort(reason) ==
    /\ scenario = "task"
    /\ TaskAbortCall(reason, "abort")
    /\ tret' = AbortReturns(tctrl)
    /\ UNCHANGED <<scenario, delivered, usig, scopeVars, helperVars>>

(* ------------------------------------------ DisposableAbortController ---- *)

\* No controller made yet.
NoController == [signal |-> FreshSignal, fired |-> 0, calls |-> 0, last |-> "none"]

\* The abort listeners of a signal run when, and only when, it becomes aborted.
Fired(old, new, n) == IF ~old.aborted /\ new.aborted THEN n + 1 ELSE n

\* new DisposableAbortController(), with abort listeners on its signal.
NewDisposableAbortController ==
    /\ scenario = "none"
    /\ scenario' = "controller"
    /\ dac' = NoController
    /\ UNCHANGED <<scopeVars, taskVars, ourl, proxy, wd, el, timer, wrapper>>

\* controller[Symbol.dispose]()
ControllerDispose ==
    /\ scenario = "controller" /\ dac.calls < MaxCalls
    /\ LET s == DisposeController(dac.signal)
       IN  dac' = [signal |-> s, fired |-> Fired(dac.signal, s, dac.fired),
                   calls |-> dac.calls + 1, last |-> "dispose"]
    /\ UNCHANGED <<scenario, scopeVars, taskVars, ourl, proxy, wd, el, timer, wrapper>>

\* controller.abort(reason)
ControllerAbort(reason) ==
    /\ scenario = "controller" /\ dac.calls < MaxCalls
    /\ LET s == Abort(dac.signal, reason)
       IN  dac' = [signal |-> s, fired |-> Fired(dac.signal, s, dac.fired),
                   calls |-> dac.calls + 1, last |-> "abort"]
    /\ UNCHANGED <<scenario, scopeVars, taskVars, ourl, proxy, wd, el, timer, wrapper>>

(* ------------------------------------------------ DisposableObjectURL ---- *)

\* What URL.createObjectURL may return.
ObjectURLs == {Val("blob:1"), Val("blob:2")}

\* No object URL made yet. revoked lists the arguments of the calls of
\* URL.revokeObjectURL; n counts dispose calls, revoke calls and signal aborts.
NoObjectURL ==
    [state |-> "none", url |-> NoVal, disposed |-> FALSE, revoked |-> <<>>,
     has |-> FALSE, aborted |-> FALSE, listener |-> FALSE, n |-> 0]

\* A Symbol.dispose that does not look at #disposed.
ObjectURLDisposeUnflagged(o) ==
    [o EXCEPT !.disposed = TRUE, !.revoked = Append(@, o.url)]

\* DisposableObjectURL[Symbol.dispose](): the first call sets #disposed and
\* revokes this.toString(); later calls do nothing.
ObjectURLDispose(o) ==
    IF ~o.disposed
    THEN [o EXCEPT !.disposed = TRUE, !.revoked = Append(@, o.url)]
    ELSE o

\* new DisposableObjectURL(blob, { signal }): throws for a non-Blob and for an
\* aborted signal; else creates the URL and listens once for the signal's abort.
NewDisposableObjectURL(isBlob, has, pre, u) ==
    /\ scenario = "none"
    /\ has \/ pre = NoVal
    /\ scenario' = "url"
    /\ IF ~isBlob
       THEN /\ ourl' = [NoObjectURL EXCEPT !.state = "failed"]
            /\ result' = Throw(Val("TypeError"))
       ELSE IF has /\ pre # NoVal
       THEN /\ ourl' = [NoObjectURL EXCEPT !.state = "failed"]
            /\ result' = Throw(pre)
       ELSE /\ ourl' = [NoObjectURL EXCEPT !.state = "live", !.url = u,
                                           !.has = has, !.listener = has]
            /\ UNCHANGED result
    /\ UNCHANGED <<pc, stack, runLog, cbOutcome, disposeCalls, asyncVars, taskVars,
                   dac, proxy, wd, el, timer, wrapper>>

\* url[Symbol.dispose]()
ObjectURLSymbolDispose ==
    /\ scenario = "url" /\ ourl.state = "live" /\ ourl.n < MaxCalls
    /\ ourl' = [ObjectURLDispose(ourl) EXCEPT !.n = @ + 1]
    /\ UNCHANGED <<scenario, scopeVars, taskVars, dac, proxy, wd, el, timer, wrapper>>

\* url.revoke(): calls this[Symbol.dispose]().
ObjectURLRevoke ==
    /\ scenario = "url" /\ ourl.state = "live" /\ ourl.n < MaxCalls
    /\ ourl' = [ObjectURLDispose(ourl) EXCEPT !.n = @ + 1]
    /\ UNCHANGED <<scenario, scopeVars, taskVars, dac, proxy, wd, el, timer, wrapper>>

\* The signal given at construction aborts: its once-listener, the bound
\* Symbol.dispose, runs and is removed.
ObjectURLSignalAborts ==
    /\ scenario = "url" /\ ourl.state = "live"
    /\ ourl.has /\ ~ourl.aborted
    /\ ourl' = [(IF ourl.listener THEN ObjectURLDispose(ourl) ELSE ourl)
                   EXCEPT !.aborted = TRUE, !.listener = FALSE, !.n = @ + 1]
    /\ UNCHANGED <<scenario, scopeVars, taskVars, dac, proxy, wd, el, timer, wrapper>>

(* ------------------------------------- helpers on a stack of the caller ---- *)

\* The exports that register a teardown action on a stack the caller made.
StackHelpers == {"guard", "when", "element", "timer"}

\* Whether a stack.dispose() on st calls a teardown action of this kind.
Ran(st, kind) ==
    ~st.disposed /\ \E i \in DOMAIN st.resources : st.resources[i].kind = kind

\* stack.defer / stack.use / stack.adopt of a teardown action that cannot throw.
Register(st, kind) ==
    [st EXCEPT !.resources = Append(@, Resource(Len(@) + 1, kind, FALSE))]

\* Proxy.revocable(target, Reflect)
NoProxy ==
    [state |-> "none", revoked |-> FALSE, target |-> NoVal,
     access |-> Pending, calls |-> 0]

\* revoke(): the proxy is unusable from now on.
Revoke(p) == [p EXCEPT !.revoked = TRUE]

\* [[Get]] through the proxy: Reflect.get on the target, TypeError once revoked.
ProxyGetResult(p) ==
    IF p.revoked THEN Throw(Val("TypeError")) ELSE Return(p.target)

\* A guard that returns the proxy without deferring its revoke.
GuardNoDefer(st) == st

\* guard(stack, target): stack.defer(revoke).
Guard(st) == Register(st, "revoke")

\* The disposal of a stack on what the helpers made: each teardown action the
\* stack holds does its work.
ProxyAfter(st, p) == IF Ran(st, "revoke") THEN Revoke(p) ELSE p

\* The caller makes a stack to use one of the helpers with.
NewUserStack(s) ==
    /\ scenario = "none"
    /\ scenario' = s
    /\ stack' = NewStack
    /\ UNCHANGED <<pc, runLog, cbOutcome, result, disposeCalls, asyncVars,
                   taskVars, helperVars>>

\* The caller registers a teardown action of its own on the stack.
UserDefer(throws) ==
    /\ scenario \in StackHelpers
    /\ ~stack.disposed
    /\ Len(stack.resources) < MaxActions
    /\ stack' = [stack EXCEPT !.resources =
                    Append(@, Resource(Len(@) + 1, "defer", throws))]
    /\ UNCHANGED <<scenario, pc, runLog, cbOutcome, result, disposeCalls,
                   asyncVars, taskVars, helperVars>>

\* guard(stack, target). On a disposed stack stack.defer throws a
\* ReferenceError and no proxy is returned.
GuardCall(target) ==
    /\ scenario = "guard" /\ proxy.state = "none"
    /\ IF stack.disposed
       THEN /\ proxy' = [NoProxy EXCEPT !.state = "failed"]
            /\ result' = Throw(Val("ReferenceError"))
            /\ UNCHANGED stack
       ELSE /\ proxy' = [NoProxy EXCEPT !.state = "live", !.target = target]
            /\ stack' = Guard(stack)
            /\ UNCHANGED result
    /\ UNCHANGED <<scenario, pc, runLog, cbOutcome, disposeCalls, asyncVars,
                   taskVars, dac, ourl, wd, el, timer, wrapper>>

\* proxy.value is read.
ProxyGet ==
    /\ scenario = "guard" /\ proxy.state = "live" /\ proxy.calls < MaxCalls
    /\ proxy' = [proxy EXCEPT !.access = ProxyGetResult(proxy), !.calls = @ + 1]
    /\ UNCHANGED <<scenario, scopeVars, taskVars, dac, ourl, wd, el, timer, wrapper>>

\* proxy.value = v: Reflect.set on the target, TypeError once revoked.
ProxySet(v) ==
    /\ scenario = "guard" /\ proxy.state = "live" /\ proxy.calls < MaxCalls
    /\ proxy' = IF proxy.revoked
                THEN [proxy EXCEPT !.access = Throw(Val("TypeError")),
                                   !.calls = @ + 1]
                ELSE [proxy EXCEPT !.access = Return(Val("true")),
                                   !.target = v, !.calls = @ + 1]
    /\ UNCHANGED <<scenario, scopeVars, taskVars, dac, ourl, wd, el, timer, wrapper>>

\* Before whenDisposed is called. promise is the promise it returns, ctl the
\* signal of its DisposableAbortController, listener whether its abort
\* listener is on the signal option, events the history of aborts and disposal.
NoWhenDisposed ==
    [state |-> "none", promise |-> Pending, has |-> FALSE,
     signal |-> FreshSignal, ctl |-> FreshSignal, listener |-> FALSE,
     events |-> <<>>]

\* A whenDisposed that registers nothing on the stack.
WhenDisposedRegisterNothing(st, has) == st

\* whenDisposed's registrations: with a signal, a controller by stack.use and
\* then resolve by stack.defer; without, resolve alone.
WhenDisposedRegister(st, has) ==
    IF has
    THEN Register(Register(st, "controller"), "resolve")
    ELSE Register(st, "resolve")

\* An abort listener that does not reject.
WhenDisposedOnAbortNothing(p, reason) == p

\* The abort listener ({ target }) => reject(target.reason).
WhenDisposedOnAbort(p, reason) == SettleOnce(p, Throw(reason))

\* The disposal of the stack on whenDisposed's state: resolve() is called,
\* then the controller is disposed, whose abort removes the abort listener.
WhenDisposedAfter(st, w) ==
    LET r == IF Ran(st, "resolve")
             THEN [w EXCEPT !.promise = SettleOnce(@, Return(Val("undefined"))),
                            !.events = Logged(@, "dispose", Return(Val("undefined")))]
             ELSE w
    IN  IF Ran(st, "controller")
        THEN [r EXCEPT !.ctl = DisposeController(@), !.listener = FALSE]
        ELSE r

\* whenDisposed(stack, { signal }): the promise rejects at once for an aborted
\* signal, a disposed stack or a stack of another type; else the stack gets
\* the registrations and the signal, if any, the abort listener.
WhenDisposedCall(isStack, has, pre) ==
    /\ scenario = "when" /\ wd.state = "none"
    /\ has \/ pre = NoVal
    /\ IF has /\ pre # NoVal
       THEN /\ wd' = [NoWhenDisposed EXCEPT !.state = "refused", !.has = TRUE,
                         !.signal = Abort(FreshSignal, pre),
                         !.promise = Throw(pre)]
            /\ UNCHANGED stack
       ELSE IF isStack /\ stack.disposed
       THEN /\ wd' = [NoWhenDisposed EXCEPT !.state = "refused", !.has = has,
                         !.promise = Throw(Val("InvalidStateError"))]
            /\ UNCHANGED stack
       ELSE IF ~isStack
       THEN /\ wd' = [NoWhenDisposed EXCEPT !.state = "refused", !.has = has,
                         !.promise = Throw(Val("TypeError"))]
            /\ UNCHANGED stack
       ELSE /\ wd' = [NoWhenDisposed EXCEPT !.state = "registered", !.has = has,
                         !.listener = has]
            /\ stack' = WhenDisposedRegister(stack, has)
    /\ UNCHANGED <<scenario, pc, runLog, cbOutcome, result, disposeCalls,
                   asyncVars, taskVars, dac, ourl, proxy, el, timer, wrapper>>

\* The signal given to whenDisposed aborts: the listener, if still there, runs
\* once.
WhenDisposedSignalAborts(r) ==
    /\ scenario = "when" /\ wd.state = "registered"
    /\ wd.has /\ ~wd.signal.aborted
    /\ wd' = [wd EXCEPT !.signal = Abort(@, r),
                        !.promise = IF wd.listener
                                    THEN WhenDisposedOnAbort(@, r) ELSE @,
                        !.listener = FALSE,
                        !.events = Logged(@, "abort", Throw(r))]
    /\ UNCHANGED <<scenario, scopeVars, taskVars, dac, ourl, proxy, el, timer, wrapper>>

\* Attribute names and values a config may hold besides tag: the string
\* 'main' and the boolean true.
AttrNames == {"id", "hidden"}
AttrValues == {Val("'main'"), Val("true")}

\* The tag entry of a config: absent, 'span', or the empty string.
TagOptions == {NoVal, Val("'span'"), Val("''")}

\* The configs createDisposableElement is called with.
Configs ==
    {[tag |-> t, attrs |-> a] :
        t \in TagOptions,
        a \in UNION {[S -> AttrValues] : S \in SUBSET AttrNames}}

\* Before createDisposableElement is called. removed counts el.remove() calls.
NoElement ==
    [state |-> "none", tag |-> NoVal, attrs |-> <<>>, removed |-> 0,
     config |-> [tag |-> NoVal, attrs |-> <<>>]]

\* A destructuring without the default.
TagOfNoDefault(t) == t

\* { tag = 'div', ...attrs }: the default stands in for an absent tag.
TagOf(t) == IF t = NoVal THEN Val("'div'") ELSE t

\* setAttribute converts the value to a string.
ToDOMString(v) == IF v = Val("true") THEN Val("'true'") ELSE v

\* Object.entries(attrs).forEach(([name, value]) => el.setAttribute(name, value))
SetAttributes(attrs) == [n \in DOMAIN attrs |-> ToDOMString(attrs[n])]

\* The disposal of the stack on the element: el => el.remove() is called.
ElementAfter(st, e) ==
    IF Ran(st, "remove") THEN [e EXCEPT !.removed = @ + 1] ELSE e

\* createDisposableElement(stack, config): throws for a stack of another type,
\* for an empty tag and for a disposed stack; else creates the element, adopts
\* it with el => el.remove() and sets the attributes.
CreateDisposableElement(isStack, config) ==
    /\ scenario = "element" /\ el.state = "none"
    /\ IF ~isStack \/ config.tag = Val("''")
       THEN /\ el' = [NoElement EXCEPT !.state = "refused", !.config = config]
            /\ result' = Throw(Val("TypeError"))
            /\ UNCHANGED stack
       ELSE IF stack.disposed
       THEN /\ el' = [NoElement EXCEPT !.state = "refused", !.config = config]
            /\ result' = Throw(Val("InvalidStateError"))
            /\ UNCHANGED stack
       ELSE /\ el' = [state |-> "created", tag |-> TagOf(config.tag),
                      attrs |-> SetAttributes(config.attrs), removed |-> 0,
                      config |-> config]
            /\ stack' = Register(stack, "remove")
            /\ UNCHANGED result
    /\ UNCHANGED <<scenario, pc, runLog, cbOutcome, disposeCalls, asyncVars,
                   taskVars, dac, ourl, proxy, wd, timer, wrapper>>

\* The helpers of scheduling.js, by what they schedule.
TimerKinds == {"timeout", "interval", "frame", "idle"}

\* Before a helper of scheduling.js is called. active tells whether the
\* platform still holds the handler, fired how often it has run.
NoTimer == [state |-> "none", kind |-> "none", active |-> FALSE, fired |-> 0]

\* clearTimeout / clearInterval / cancelAnimationFrame / cancelIdleCallback
\* with the id the stack adopted: the platform drops the handler, if it still
\* holds it; the call never throws.
TimerAfter(st, t) ==
    IF Ran(st, "clear") THEN [t EXCEPT !.active = FALSE] ELSE t

\* setDisposableTimeout, setDisposableInterval, requestDisposableAnimationFrame
\* or requestDisposableIdleCallback: the argument of stack.adopt is evaluated
\* first, so the handler is scheduled; then stack.adopt registers the id with
\* its clear function, or throws a ReferenceError on a disposed stack.
SetDisposable(kind) ==
    /\ scenario = "timer" /\ timer.state = "none"
    /\ IF stack.disposed
       THEN /\ timer' = [state |-> "unregistered", kind |-> kind,
                         active |-> TRUE, fired |-> 0]
            /\ result' = Throw(Val("ReferenceError"))
            /\ UNCHANGED stack
       ELSE /\ timer' = [state |-> "registered", kind |-> kind,
                         active |-> TRUE, fired |-> 0]
            /\ stack' = Register(stack, "clear")
            /\ UNCHANGED result
    /\ UNCHANGED <<scenario, pc, runLog, cbOutcome, disposeCalls, asyncVars,
                   taskVars, dac, ourl, proxy, wd, el, wrapper>>

\* The platform runs the handler: once, or again and again for an interval.
HandlerFires ==
    /\ scenario = "timer" /\ timer.active /\ timer.fired < MaxCalls
    /\ timer' = [timer EXCEPT !.fired = @ + 1, !.active = (timer.kind = "interval")]
    /\ UNCHANGED <<scenario, scopeVars, taskVars, dac, ourl, proxy, wd, el, wrapper>>

(* ------------------------------- network.js, observers.js, media.js ---- *)

\* The wrapper classes whose platform teardown is disconnect().
Observers ==
    {"DisposableMutationObserver", "DisposableIntersectionObserver",
     "DisposableResizeObserver", "DisposablePerformanceObserver",
     "DisposableReportingObserver"}

\* The wrapper classes whose platform teardown is close().
Closables ==
    {"DisposableBroadcastChannel", "DisposableWebSocket",
     "DisposableEventSource", "DisposableRTCPeerConnection",
     "DisposableWebTransport", "DisposableAudioContext"}

\* Every wrapper class of the three files.
WrapperClasses == {"DisposableWorker"} \cup Observers \cup Closables

\* The dispose hooks a class has: AudioContext has an asynchronous one too.
HooksOf(class) ==
    IF class = "DisposableAudioContext"
    THEN {"Symbol.dispose", "Symbol.asyncDispose"}
    ELSE {"Symbol.dispose"}

\* The platform method the dispose hook of a class calls.
TeardownOf(class) ==
    IF class = "DisposableWorker" THEN "terminate"
    ELSE IF class \in Observers THEN "disconnect"
    ELSE "close"

\* No instance made yet. native lists the platform methods the hooks called,
\* hooks counts the calls of the hooks.
NoWrapper == [class |-> "none", native |-> <<>>, hooks |-> 0]

\* A dispose hook that keeps a disposed flag: only its first call reaches the
\* platform.
WrapperHookFlagged(w) ==
    [w EXCEPT !.native = IF w.hooks = 0 THEN Append(@, TeardownOf(w.class)) ELSE @,
              !.hooks = @ + 1]

\* [Symbol.dispose]() { this.terminate() / this.disconnect() / this.close() }
\* and async [Symbol.asyncDispose]() { await this.close() }: one call of the
\* platform method. What the platform method returns is dropped or awaited.
WrapperHook(w) ==
    [w EXCEPT !.native = Append(@, TeardownOf(w.class)), !.hooks = @ + 1]

\* new DisposableWorker(..), new DisposableWebSocket(..), and so on.
NewWrapper(class) ==
    /\ scenario = "none"
    /\ scenario' = "wrapper"
    /\ wrapper' = [NoWrapper EXCEPT !.class = class]
    /\ UNCHANGED <<scopeVars, taskVars, dac, ourl, proxy, wd, el, timer>>

\* A dispose hook of the instance is called.
WrapperDispose(hook) ==
    /\ scenario = "wrapper" /\ wrapper.hooks < MaxCalls
    /\ hook \in HooksOf(wrapper.class)
    /\ wrapper' = WrapperHook(wrapper)
    /\ UNCHANGED <<scenario, scopeVars, taskVars, dac, ourl, proxy, wd, el, timer>>

\* stack.dispose() by the caller: the teardown actions run, those of the
\* helpers included; result is how the call completed.
UserDispose ==
    /\ scenario \in StackHelpers
    /\ disposeCalls < MaxCalls
    /\ LET d == StackDispose(stack, runLog)
       IN  /\ stack' = d.stack
           /\ runLog' = d.log
           /\ result' = IF d.err = NoVal THEN Return(Val("undefined"))
                        ELSE Throw(d.err)
    /\ disposeCalls' = disposeCalls + 1
    /\ proxy' = ProxyAfter(stack, proxy)
    /\ wd' = WhenDisposedAfter(stack, wd)
    /\ el' = ElementAfter(stack, el)
    /\ timer' = TimerAfter(stack, timer)
    /\ UNCHANGED <<scenario, pc, cbOutcome, asyncVars, taskVars, dac, ourl, wrapper>>

vars == <<scenario, pc, stack, runLog, cbOutcome, result, disposeCalls,
          cbMode, hasSig, sig, ctrl, anySig, disp, fin,
          tcb, posted, delivered, awaitable, tctrl, usig, tany, events, tret,
          dac, ourl, proxy, wd, el, timer, wrapper>>

Init ==
    /\ scenario = "none"
    /\ pc = "idle"
    /\ stack = NewStack
    /\ runLog = <<>>
    /\ cbOutcome = Pending
    /\ result = Pending
    /\ disposeCalls = 0
    /\ cbMode = "none"
    /\ hasSig = FALSE
    /\ sig = FreshSignal
    /\ ctrl = FreshSignal
    /\ anySig = FreshSignal
    /\ disp = NoDisposal
    /\ fin = "none"
    /\ tcb = "none"
    /\ posted = Pending
    /\ delivered = FALSE
    /\ awaitable = Pending
    /\ tctrl = FreshSignal
    /\ usig = NoSignal
    /\ tany = FreshSignal
    /\ events = <<>>
    /\ tret = NoVal
    /\ dac = NoController
    /\ ourl = NoObjectURL
    /\ proxy = NoProxy
    /\ wd = NoWhenDisposed
    /\ el = NoElement
    /\ timer = NoTimer
    /\ wrapper = NoWrapper

Next ==
    \/ UseDisposableStack
    \/ \E throws \in BOOLEAN : SyncDefer(throws)
    \/ SyncCallbackDispose
    \/ \E v \in Values : SyncReturn(v)
    \/ \E e \in Errors \cup {Val("ReferenceError")} : SyncThrow(e)
    \/ \E mode \in {"sync", "async"}, has \in BOOLEAN, pre \in {NoVal} \cup Reasons :
          UseAsyncDisposableStack(mode, has, pre)
    \/ \E throws \in BOOLEAN : AsyncDefer(throws)
    \/ AsyncCallbackDispose
    \/ CallbackAbortsController
    \/ \E r \in Reasons : ExternalAbort(r)
    \/ ContinueDispose
    \/ \E v \in Values : CallbackFulfils(v)
    \/ \E e \in Errors : CallbackRejects(e)
    \/ CallbackRejectsWithReason
    \/ FinallyReaction
    \/ Settle
    \/ \E isFunction \in BOOLEAN, has \in BOOLEAN, pre \in {NoVal} \cup Reasons :
          NewDisposableTask(isFunction, has, pre)
    \/ SchedulerRunsCallback
    \/ \E v \in Values : TaskCallbackCompletes(Return(v))
    \/ \E e \in Errors : TaskCallbackCompletes(Throw(e))
    \/ PostedReaction
    \/ \E r \in Reasons : UserSignalAborts(r)
    \/ TaskDispose
    \/ \E r \in AbortReasons : TaskAbort(r)
    \/ NewDisposableAbortController
    \/ ControllerDispose
    \/ \E r \in Reasons : ControllerAbort(r)
    \/ \E isBlob, has \in BOOLEAN, pre \in {NoVal} \cup Reasons, u \in ObjectURLs :
          NewDisposableObjectURL(isBlob, has, pre, u)
    \/ ObjectURLSymbolDispose
    \/ ObjectURLRevoke
    \/ ObjectURLSignalAborts
    \/ \E s \in StackHelpers : NewUserStack(s)
    \/ \E throws \in BOOLEAN : UserDefer(throws)
    \/ UserDispose
    \/ \E v \in Values : GuardCall(v)
    \/ ProxyGet
    \/ \E v \in Values : ProxySet(v)
    \/ \E isStack, has \in BOOLEAN, pre \in {NoVal} \cup Reasons :
          WhenDisposedCall(isStack, has, pre)
    \/ \E r \in Reasons : WhenDisposedSignalAborts(r)
    \/ \E isStack \in BOOLEAN, config \in Configs :
          CreateDisposableElement(isStack, config)
    \/ \E kind \in TimerKinds : SetDisposable(kind)
    \/ HandlerFires
    \/ \E class \in WrapperClasses : NewWrapper(class)
    \/ \E hook \in {"Symbol.dispose", "Symbol.asyncDispose"} : WrapperDispose(hook)

Spec == Init /\ [][Next]_vars

(* ---------------------------------------------------------------- claims *)

\* How many times teardown action id has been called.
Calls(id) == Cardinality({k \in DOMAIN runLog : runLog[k] = id})

\* The resources of the stack the callback registered itself.
Deferred == {i \in DOMAIN stack.resources : stack.resources[i].kind = "defer"}

\* Whether the dispose method of resources[i] has been called and has finished:
\* a deferred action has once the stack's await of its result resumed, the
\* scope's own controller (a synchronous method) has once called.
Finished(i) ==
    /\ Calls(stack.resources[i].id) > 0
    /\ ~(disp.state = "awaiting" /\ disp.idx = i /\ stack.resources[i].kind = "defer")

\* Whether some registered teardown action throws (or rejects).
SomeTeardownThrows == \E i \in DOMAIN stack.resources : stack.resources[i].throws

\* The signal useAsyncDisposableStack handed to the callback.
Signal == ScopeSignal(hasSig, anySig, ctrl)

\* C1: once useDisposableStack has handed control back, by return or by throw,
\* every teardown action registered on its stack has been called exactly once.
C1_SyncEachActionOnceOnExit ==
    (scenario = "sync" /\ pc = "done") =>
        \A i \in DOMAIN stack.resources : Calls(stack.resources[i].id) = 1

\* The callback registered two actions, one of them throwing, and threw.
C1_Witness ==
    /\ scenario = "sync" /\ pc = "done"
    /\ cbOutcome.kind = "throw"
    /\ Len(stack.resources) >= 2
    /\ SomeTeardownThrows
    /\ Len(runLog) = Len(stack.resources)

\* C2: in useAsyncDisposableStack no teardown action is ever called twice, and
\* once the returned promise has settled and no disposal is still under way,
\* every action the callback registered has been called exactly once, however
\* the callback ended.
C2_AsyncEachActionOnce ==
    scenario = "async" =>
        /\ \A i \in Deferred : Calls(stack.resources[i].id) <= 1
        /\ (pc = "done" /\ disp.state # "awaiting") =>
              \A i \in Deferred : Calls(stack.resources[i].id) = 1

\* A synchronous callback registered two actions and threw; all were called.
C2_Witness ==
    /\ scenario = "async" /\ pc = "done" /\ disp.state = "done"
    /\ cbMode = "sync" /\ cbOutcome.kind = "throw"
    /\ Cardinality(Deferred) >= 2
    /\ \A i \in Deferred : Calls(stack.resources[i].id) = 1

\* C3: in both scopes the teardown actions are called in reverse registration
\* order, each at most once: the calls so far are those of the resources
\* registered last, latest first, however often disposal was triggered.
C3_ReverseOrderAtMostOnce ==
    /\ Len(runLog) <= Len(stack.resources)
    /\ \A k \in DOMAIN runLog :
          runLog[k] = stack.resources[Len(stack.resources) - k + 1].id

\* The abort of the external signal disposed the stack and the finally
\* reaction disposed it again; three resources were called.
C3_Witness ==
    /\ scenario = "async" /\ pc = "done"
    /\ disp.by = "listener" /\ disp.state = "done"
    /\ disposeCalls >= 2
    /\ Len(runLog) >= 3

\* The callback has neither disposed the stack nor aborted the controller
\* itself: whatever disposal there is, the helper started.
CallbackLeftScopeAlone ==
    /\ disp.by # "callback"
    /\ ctrl.aborted => ctrl.reason = ControllerDisposed

\* C4: when the promise of useAsyncDisposableStack has settled, every teardown
\* action registered on the stack has finished running (stated for the
\* executions in which the helper alone disposes the stack).
C4_SettledOnlyAfterTeardown ==
    (scenario = "async" /\ pc = "done" /\ CallbackLeftScopeAlone) =>
        \A i \in DOMAIN stack.resources : Finished(i)

\* C5: when the external signal aborts while the callback is pending, then in
\* that very step the stack is disposed and its disposal under way, the action
\* registered last having been called.
C5_AbortStartsDisposal ==
    [][ (CallbackPending /\ hasSig /\ ~sig.aborted /\ sig'.aborted) =>
            /\ stack'.disposed
            /\ disp'.state # "idle"
            /\ Calls(stack.resources[Len(stack.resources)].id)' = 1 ]_vars

\* The abort came while the callback was pending with two actions registered,
\* and started the disposal.
C5_Witness ==
    /\ CallbackPending /\ sig.aborted
    /\ disp.by = "listener" /\ stack.disposed
    /\ Cardinality(Deferred) >= 2
    /\ Len(runLog) >= 1

\* C6, as stated: whenever the external signal aborts with reason R while the
\* callback is pending, the callback's signal is then aborted with reason R.
C6_AbortReasonReachesSignal ==
    [][ (CallbackPending /\ hasSig /\ ~sig.aborted /\ sig'.aborted) =>
            Signal' = [aborted |-> TRUE, reason |-> sig'.reason] ]_vars

\* C6, amended: when the external signal aborts with reason R while the
\* callback is pending and the callback's signal is not aborted yet, that signal
\* becomes aborted with reason R; an aborted signal never changes (teardown's
\* abort of the controller does not replace R); and a callback that rejects
\* with that reason makes the returned promise reject with R.
C6_FirstAbortReasonKept ==
    [][ /\ (CallbackPending /\ hasSig /\ ~sig.aborted /\ sig'.aborted /\ ~Signal.aborted) =>
              Signal' = [aborted |-> TRUE, reason |-> sig'.reason]
        /\ Signal.aborted => Signal' = Signal
        /\ (pc' = "done" /\ hasSig /\ sig'.aborted /\ Signal'.reason = sig'.reason
              /\ cbOutcome' = Throw(sig'.reason)) =>
              result' = Throw(sig'.reason) ]_vars

\* The external abort came first, the callback rejected with the signal's
\* reason, teardown aborted the controller, and the promise rejected with R.
C6_Witness ==
    /\ scenario = "async" /\ pc = "done" /\ hasSig
    /\ sig.aborted /\ Signal = sig
    /\ ctrl = [aborted |-> TRUE, reason |-> ControllerDisposed]
    /\ cbOutcome = Throw(sig.reason)
    /\ result = Throw(sig.reason)

\* C7: once the promise of useAsyncDisposableStack has settled after a call of
\* the callback, the callback's signal and the controller's own are aborted
\* (stated for the executions in which the helper alone disposes the stack).
C7_SignalsAbortedOnceSettled ==
    (scenario = "async" /\ pc = "done" /\ cbOutcome # Pending
        /\ CallbackLeftScopeAlone) =>
        (Signal.aborted /\ ctrl.aborted)

\* C8: with no throwing teardown action, useDisposableStack completes as the
\* callback did (same value returned, same exception thrown), the stack
\* disposed and every teardown action called.
C8_SyncResultIsCallbacks ==
    (scenario = "sync" /\ pc = "done" /\ ~SomeTeardownThrows) =>
        /\ result = cbOutcome
        /\ stack.disposed
        /\ Len(runLog) = Len(stack.resources)

\* The callback registered an action and threw; the exception came through.
C8_Witness ==
    /\ scenario = "sync" /\ pc = "done" /\ ~SomeTeardownThrows
    /\ Len(stack.resources) >= 1
    /\ cbOutcome.kind = "throw" /\ result = cbOutcome

\* No signal of the scope was aborted other than by the teardown of the
\* controller.
NoAbortOccurred ==
    /\ ~sig.aborted
    /\ ctrl.aborted => ctrl.reason = ControllerDisposed

\* C10: the awaitable of a DisposableTask settles with the outcome of the
\* first of its events (the callback completing, the signal option aborting,
\* dispose()/abort() being called), and once settled it never changes.
C10_FirstEventDecides ==
    [][ /\ awaitable' # Pending =>
              (events' # <<>> /\ awaitable' = events'[1].outcome)
        /\ awaitable # Pending => awaitable' = awaitable ]_vars

\* C9: with no abort and no throwing teardown action, the promise of
\* useAsyncDisposableStack settles as the callback did: fulfilled with its
\* value or rejected with its error.
C9_AsyncResultIsCallbacks ==
    (scenario = "async" /\ pc = "done" /\ cbOutcome # Pending
        /\ NoAbortOccurred /\ ~SomeTeardownThrows) =>
        result = cbOutcome

\* An asynchronous callback registered two actions and fulfilled; the promise
\* fulfilled with its value after the finally reaction's disposal.
C9_Witness ==
    /\ scenario = "async" /\ pc = "done" /\ cbMode = "async"
    /\ NoAbortOccurred /\ ~SomeTeardownThrows
    /\ Cardinality(Deferred) >= 2 /\ disp.by = "finally"
    /\ cbOutcome.kind = "return" /\ result = cbOutcome

\* Whether the scheduler has started the task's callback.
Started == tcb \in {"running", "completed"}

\* Whether dispose() or abort() has been called on the task.
AbortCalled == \E k \in DOMAIN events : events[k].event = "abort"

\* C11: disposing a task whose awaitable has not settled makes task.aborted
\* true and rejects the awaitable with the 'Task was disposed.' AbortError, and
\* a settled awaitable never changes, whatever the callback produces later.
C11_DisposeRejectsPending ==
    [][ /\ (TaskDispose /\ awaitable = Pending) =>
              (tctrl'.aborted /\ awaitable' = Throw(TaskDisposed))
        /\ (scenario = "task" /\ awaitable # Pending) => awaitable' = awaitable ]_vars

\* The task was disposed while its callback was running; the callback then
\* produced a value, which was passed on; the awaitable is still rejected.
C11_Witness ==
    /\ scenario = "task" /\ tcb = "completed" /\ delivered
    /\ posted.kind = "return"
    /\ events[1].event = "abort"
    /\ tctrl.aborted /\ awaitable = Throw(TaskDisposed)

\* C12: once the task's controller is aborted (by dispose or abort()) with the
\* callback not started, the callback is never started.
C12_AbortedBeforeStartNeverRuns ==
    [][ (scenario = "task" /\ tctrl.aborted /\ ~Started) => ~Started' ]_vars

\* The task was disposed while queued: the scheduler dropped the callback and
\* the rejection of its promise was passed on.
C12_Witness ==
    /\ scenario = "task" /\ tcb = "cancelled" /\ delivered
    /\ tctrl = [aborted |-> TRUE, reason |-> TaskDisposed]
    /\ awaitable = Throw(TaskDisposed)

C14_DisposeAbortsOnce ==
    [][ /\ (ControllerDispose /\ ~dac.signal.aborted) =>
              /\ dac'.signal = [aborted |-> TRUE, reason |-> ControllerDisposed]
              /\ dac'.fired = dac.fired + 1
        /\ (scenario = "controller" /\ dac.signal.aborted) =>
              /\ dac'.signal = dac.signal
              /\ dac'.fired = dac.fired ]_vars

\* A controller aborted with a reason of the caller's and disposed afterwards:
\* the reason stands and the listeners ran once.
C14_Witness ==
    /\ scenario = "controller" /\ dac.calls >= 2 /\ dac.last = "dispose"
    /\ dac.signal \in {[aborted |-> TRUE, reason |-> r] : r \in Reasons}
    /\ dac.fired = 1

\* C15: URL.revokeObjectURL has been called once, with the URL made at
\* construction, as soon as one dispose call, revoke call or abort of the
\* signal has happened, and not at all before; disposed tells which.
C15_RevokedOnceAtFirstEvent ==
    (scenario = "url" /\ ourl.state = "live") =>
        /\ ourl.disposed = (ourl.n > 0)
        /\ ourl.revoked = IF ourl.n > 0 THEN <<ourl.url>> ELSE <<>>

\* Several of the three events happened, the abort among them.
C15_Witness ==
    /\ scenario = "url" /\ ourl.state = "live"
    /\ ourl.n >= 3 /\ ourl.aborted
    /\ ourl.disposed /\ ourl.revoked = <<ourl.url>>

\* C16: a read through the proxy gives the target's value and a write through
\* it reaches the target while the stack is not disposed; once the stack is
\* disposed every read and write through the proxy throws a TypeError and
\* leaves the target alone; the disposal itself does not change the target.
C16_ProxyUsableUntilDisposed ==
    [][ /\ ProxyGet =>
              proxy'.access = IF stack.disposed THEN Throw(Val("TypeError"))
                              ELSE Return(proxy.target)
        /\ \A v \in Values : ProxySet(v) =>
              IF stack.disposed
              THEN /\ proxy'.access = Throw(Val("TypeError"))
                   /\ proxy'.target = proxy.target
              ELSE /\ proxy'.access.kind = "return"
                   /\ proxy'.target = v
        /\ (UserDispose /\ scenario = "guard") => proxy'.target = proxy.target ]_vars

\* The proxy was used, the stack was disposed, and the next access threw.
C16_Witness ==
    /\ scenario = "guard" /\ proxy.state = "live"
    /\ stack.disposed /\ proxy.calls >= 2
    /\ proxy.access = Throw(Val("TypeError"))
    /\ proxy.target \in Values

\* C17: the promise of whenDisposed(stack), called without a signal on a live
\* stack, is pending while the stack is not disposed and fulfilled with
\* undefined once it is.
C17_FulfilsWhenDisposed ==
    (scenario = "when" /\ wd.state = "registered" /\ ~wd.has) =>
        wd.promise = IF stack.disposed THEN Return(Val("undefined")) ELSE Pending

\* The stack, which also held a teardown action of the caller that threw, was
\* disposed and the promise fulfilled.
C17_Witness ==
    /\ scenario = "when" /\ wd.state = "registered" /\ ~wd.has
    /\ stack.disposed /\ result.kind = "throw"
    /\ wd.promise = Return(Val("undefined"))

\* C18: the promise of whenDisposed(stack, { signal }) is pending until the
\* first of the signal's abort and the stack's disposal, and from then on is
\* what that event made it: rejected with the signal's reason, or fulfilled;
\* the other event, if it follows, changes nothing, and once the stack is
\* disposed the abort listener is gone.
C18_FirstOfAbortAndDisposalDecides ==
    (scenario = "when" /\ wd.state = "registered" /\ wd.has) =>
        /\ stack.disposed = (\E k \in DOMAIN wd.events : wd.events[k].event = "dispose")
        /\ wd.signal.aborted = (\E k \in DOMAIN wd.events : wd.events[k].event = "abort")
        /\ wd.events = <<>> => wd.promise = Pending
        /\ (wd.events # <<>> /\ wd.events[1].event = "abort") =>
              wd.promise = Throw(wd.signal.reason)
        /\ (wd.events # <<>> /\ wd.events[1].event = "dispose") =>
              wd.promise = Return(Val("undefined"))
        /\ stack.disposed => ~wd.listener

\* The stack was disposed first and the signal aborted afterwards: the promise
\* is fulfilled.
C18_Witness ==
    /\ scenario = "when" /\ wd.state = "registered" /\ wd.has
    /\ Len(wd.events) = 2 /\ wd.events[1].event = "dispose"
    /\ wd.signal.aborted /\ wd.ctl.aborted
    /\ wd.promise = Return(Val("undefined"))

\* C19: the element createDisposableElement returned has the config's tag, or
\* 'div' if the config has none, and exactly the config's other entries as
\* attributes; its remove() has been called once if the stack is disposed and
\* not at all if it is not.
C19_ElementRemovedOnDisposal ==
    (scenario = "element" /\ el.state = "created") =>
        /\ el.tag = IF el.config.tag = NoVal THEN Val("'div'") ELSE el.config.tag
        /\ DOMAIN el.attrs = DOMAIN el.config.attrs
        /\ \A n \in DOMAIN el.attrs : el.attrs[n] = ToDOMString(el.config.attrs[n])
        /\ el.removed = IF stack.disposed THEN 1 ELSE 0

\* An element made without a tag and with two attributes; the stack was
\* disposed, twice.
C19_Witness ==
    /\ scenario = "element" /\ el.state = "created"
    /\ el.config.tag = NoVal /\ el.tag = Val("'div'")
    /\ DOMAIN el.attrs = AttrNames
    /\ stack.disposed /\ disposeCalls >= 2 /\ el.removed = 1

\* C20: after a call of setDisposableTimeout, setDisposableInterval,
\* requestDisposableAnimationFrame or requestDisposableIdleCallback the handler
\* does not run (again) while the stack is disposed, and a disposal after the
\* handler ran leaves the count of its runs alone and throws nothing that
\* stems from the helper's teardown action.
C20_HandlerNeverRunsOnceDisposed ==
    [][ (scenario = "timer" /\ timer.state # "none") =>
            /\ stack.disposed => timer'.fired = timer.fired
            /\ (UserDispose /\ timer.fired > 0) =>
                  /\ timer'.fired = timer.fired
                  /\ \A k \in DOMAIN result'.val.ids :
                        stack.resources[result'.val.ids[k]].kind = "defer" ]_vars

\* C21: on an instance of any wrapper class every call of a dispose hook has
\* called the platform's teardown method once and nothing else: terminate for
\* the worker, disconnect for the observers, close for the rest; so after n
\* calls of the hooks the platform method has been called n times.
C21_EachDisposeCallsNativeTeardown ==
    scenario = "wrapper" =>
        /\ Len(wrapper.native) = wrapper.hooks
        /\ \A k \in DOMAIN wrapper.native :
              wrapper.native[k] =
                 IF wrapper.class = "DisposableWorker" THEN "terminate"
                 ELSE IF wrapper.class \in
                         {"DisposableMutationObserver", "DisposableIntersectionObserver",
                          "DisposableResizeObserver", "DisposablePerformanceObserver",
                          "DisposableReportingObserver"} THEN "disconnect"
                 ELSE "close"

\* An observer disposed twice: disconnect was called twice.
C21_Witness ==
    /\ scenario = "wrapper" /\ wrapper.class = "DisposableResizeObserver"
    /\ wrapper.hooks = 2
    /\ wrapper.native = <<"disconnect", "disconnect">>

\* C22, as stated: whenever the promise of useAsyncDisposableStack has settled
\* after the callback ended, it has settled as the callback did.
C22_AlwaysCallbacksOutcome ==
    (scenario = "async" /\ pc = "done" /\ cbOutcome # Pending) =>
        result = cbOutcome

\* C22, amended: the promise of useAsyncDisposableStack settles as the callback
\* did unless the disposal the finally step started failed; in particular an
\* abort of the external signal during the callback, which starts the disposal,
\* leaves the promise to fulfil with the value the callback completes with.
C22_AbortLeavesCallbacksOutcome ==
    (scenario = "async" /\ pc = "done" /\ cbOutcome # Pending
        /\ ~(disp.by = "finally" /\ disp.err # NoVal)) =>
        result = cbOutcome

\* The external signal aborted while the callback was pending and started the
\* disposal; the callback fulfilled all the same and so did the promise.
C22_Witness ==
    /\ scenario = "async" /\ pc = "done" /\ cbMode = "async"
    /\ sig.aborted /\ disp.by = "listener"
    /\ cbOutcome \in {Return(v) : v \in Values}
    /\ result = cbOutcome

\* C23: when the promise of useAsyncDisposableStack has settled and a teardown
\* action registered on the stack throws (or rejects), the promise is rejected,
\* also when the abort of the external signal started the disposal (stated for
\* the executions in which the helper alone disposes the stack).
C23_TeardownErrorRejects ==
    (scenario = "async" /\ pc = "done" /\ CallbackLeftScopeAlone
        /\ SomeTeardownThrows) =>
        result.kind = "throw"

\* C24: a call of useAsyncDisposableStack with a signal that is aborted
\* already leaves its promise rejected with the signal's reason, makes no stack
\* and no controller, enters no callback and runs no teardown action, in that
\* step and in every later one.
C24_PreAbortedRejectsAtOnce ==
    [][ /\ (scenario = "none" /\ scenario' = "async" /\ sig'.aborted) =>
              /\ result' = Throw(sig'.reason)
              /\ pc' = "done" /\ cbMode' = "none" /\ cbOutcome' = Pending
              /\ stack' = NewStack /\ runLog' = <<>>
              /\ ctrl' = FreshSignal /\ disp' = NoDisposal
        /\ (scenario = "async" /\ cbMode = "none") =>
              UNCHANGED <<result, pc, cbMode, cbOutcome, stack, runLog, ctrl, disp>> ]_vars

\* The helper was called with a signal aborted with R1, and rejected with R1.
C24_Witness ==
    /\ scenario = "async" /\ cbMode = "none" /\ hasSig
    /\ sig = [aborted |-> TRUE, reason |-> Val("R1")]
    /\ result = Throw(Val("R1"))
    /\ stack.resources = <<>> /\ runLog = <<>>

\* C25: abort(reason) returns true if the task's controller was not aborted
\* before the call, and the controller is then aborted with that reason; on an
\* aborted controller abort() returns false and neither it nor dispose changes
\* the controller or the awaitable; an awaitable that is fulfilled stays as it
\* is whatever is called.
C25_AbortReturnsWhetherItAborted ==
    [][ /\ \A r \in AbortReasons : TaskAbort(r) =>
              /\ tret' = IF tctrl.aborted THEN Val("false") ELSE Val("true")
              /\ ~tctrl.aborted => tctrl' = [aborted |-> TRUE, reason |-> r]
              /\ tctrl.aborted => (tctrl' = tctrl /\ awaitable' = awaitable)
        /\ (TaskDispose /\ tctrl.aborted) =>
              (tctrl' = tctrl /\ awaitable' = awaitable)
        /\ (scenario = "task" /\ awaitable.kind = "return") =>
              awaitable' = awaitable ]_vars

\* The task fulfilled with the callback's value; the first abort('A1') came
\* afterwards, returned true and aborted the controller.
C25_Witness ==
    /\ scenario = "task" /\ delivered
    /\ Len(events) = 2 /\ events[1].event = "callback"
    /\ awaitable \in {Return(v) : v \in Values}
    /\ tret = Val("true")
    /\ tctrl = [aborted |-> TRUE, reason |-> Val("A1")]

\* C26: task.aborted is the state of the task's own controller: when the
\* signal option aborted after construction, before the callback completed and
\* with no dispose() or abort() called, then once the callback is over and the
\* scheduler's promise passed on the awaitable is rejected with that signal's
\* reason and task.aborted is false; a signal aborted already at construction
\* leaves task.aborted true.
C26_UserSignalRejectsAloneAbortedFalse ==
    /\ (scenario = "task" /\ tcb \in {"completed", "cancelled"} /\ delivered
          /\ usig.aborted /\ ~AbortCalled /\ events[1].event = "signal") =>
          (awaitable = Throw(usig.reason) /\ ~tctrl.aborted)
    /\ (scenario = "task" /\ tcb = "none" /\ usig.aborted /\ ~AbortCalled) =>
          tctrl = [aborted |-> TRUE, reason |-> usig.reason]

====
